---------------------------- MODULE Spec2Model ----------------------------
(***************************************************************************)
(* A model of bragi_elasticsearch_probe: the probing pipeline of the       *)
(* server (src/api/environment.rs), which turns a registry of              *)
(* (environment, url) pairs into a list of BragiInfo status records, and   *)
(* the command-line program (src/main.rs), which probes one environment    *)
(* of the same registry and prints its record.                             *)
(*                                                                         *)
(* Strings are sequences of one-character strings, so that split('_'),     *)
(* starts_with("priv."), skip(5), Url::parse and str::parse are computed   *)
(* character by character, as the code computes them.                      *)
(* Option<T> is a sequence: <<>> is None and <<x>> is Some(x).             *)
(***************************************************************************)
EXTENDS Integers, Sequences, FiniteSets

(***************************************************************************)
(* Bounds of the model.                                                    *)
(***************************************************************************)
\* the largest registry (number of entries of Context.envs)
MaxEnvs == 2
\* the longest index listing a backend returns
MaxListing == 2
\* the largest reading of the clock (Utc::now())
MaxClock == 1

(***************************************************************************)
(* Characters and strings.                                                 *)
(***************************************************************************)
Lower ==
  {"a","b","c","d","e","f","g","h","i","j","k","l","m",
   "n","o","p","q","r","s","t","u","v","w","x","y","z"}

Digit == {"0","1","2","3","4","5","6","7","8","9"}

DigitValue(c) ==
  CASE c = "0" -> 0 [] c = "1" -> 1 [] c = "2" -> 2 [] c = "3" -> 3
    [] c = "4" -> 4 [] c = "5" -> 5 [] c = "6" -> 6 [] c = "7" -> 7
    [] c = "8" -> 8 [] c = "9" -> 9

DigitChar(d) ==
  CASE d = 0 -> "0" [] d = 1 -> "1" [] d = 2 -> "2" [] d = 3 -> "3"
    [] d = 4 -> "4" [] d = 5 -> "5" [] d = 6 -> "6" [] d = 7 -> "7"
    [] d = 8 -> "8" [] d = 9 -> "9"

\* Option<T>
None == <<>>
Some(x) == <<x>>
IsSome(o) == Len(o) = 1
Unwrap(o) == o[1]

\* str::starts_with
StartsWith(s, p) == Len(p) <= Len(s) /\ SubSeq(s, 1, Len(p)) = p

\* s.chars().skip(n).collect()
Skip(s, n) == SubSeq(s, n + 1, Len(s))

\* the position of the first c in s; 0 when there is none
RECURSIVE FindFrom(_, _, _)
FindFrom(s, c, i) ==
  IF i > Len(s) THEN 0
  ELSE IF s[i] = c THEN i
  ELSE FindFrom(s, c, i + 1)

Find(s, c) == FindFrom(s, c, 1)

\* the position of the last c in s; 0 when there is none
RECURSIVE RFindFrom(_, _, _)
RFindFrom(s, c, i) ==
  IF i = 0 THEN 0
  ELSE IF s[i] = c THEN i
  ELSE RFindFrom(s, c, i - 1)

RFind(s, c) == RFindFrom(s, c, Len(s))

\* s.split(c).collect(): always at least one piece, pieces may be empty
RECURSIVE Split(_, _)
Split(s, c) ==
  LET i == Find(s, c)
  IN  IF i = 0 THEN <<s>>
      ELSE <<SubSeq(s, 1, i - 1)>> \o Split(Skip(s, i), c)

\* the decimal value of a string of digits, accumulated digit by digit with
\* checked arithmetic: None when it exceeds max
RECURSIVE CheckedDecimal(_, _)
CheckedDecimal(s, max) ==
  IF Len(s) = 0 THEN Some(0)
  ELSE LET p == CheckedDecimal(SubSeq(s, 1, Len(s) - 1), max)
           d == DigitValue(s[Len(s)])
       IN  IF ~IsSome(p) THEN None
           ELSE IF Unwrap(p) > (max - d) \div 10 THEN None
           ELSE Some(10 * Unwrap(p) + d)

\* the value of '-' followed by the digits s: None when it is below min
RECURSIVE CheckedNegative(_, _)
CheckedNegative(s, min) ==
  IF Len(s) = 0 THEN Some(0)
  ELSE LET p == CheckedNegative(SubSeq(s, 1, Len(s) - 1), min)
           d == DigitValue(s[Len(s)])
       IN  IF ~IsSome(p) THEN None
           ELSE IF Unwrap(p) < (min + d + 9) \div 10 THEN None
           ELSE Some(10 * Unwrap(p) - d)

AllDigits(s) == \A i \in 1..Len(s) : s[i] \in Digit

\* format!("{}", n) of a non-negative integer
RECURSIVE FormatInt(_)
FormatInt(n) ==
  IF n < 10 THEN <<DigitChar(n)>>
  ELSE FormatInt(n \div 10) \o <<DigitChar(n % 10)>>

(***************************************************************************)
(* Url::parse (crate url), for the strings a /status body can carry in     *)
(* 'es'.  A parsed Url is [scheme, host, port, path]; host and port are    *)
(* Options.  Modelled: the scheme, the special schemes http and https with *)
(* their default ports, the authority (host and port), the path, and URLs  *)
(* without authority; not modelled: user info, query, fragment, IPv4/IPv6  *)
(* hosts, percent-encoding and dot segments, which the sampled strings do  *)
(* not contain.                                                            *)
(***************************************************************************)
http == <<"h","t","t","p">>
https == <<"h","t","t","p","s">>

IsSpecial(scheme) == scheme \in {http, https}

\* the port a special scheme leaves out of Url::port()
DefaultPort(scheme) == IF scheme = http THEN 80 ELSE IF scheme = https THEN 443 ELSE 0 - 1

\* the largest u16, the type of a port
U16Max == 65535

ParseError == [ok |-> FALSE]

\* the scheme ends at the first ':'; it starts with a letter and holds
\* letters, digits, '+', '-' and '.'; otherwise the string is a relative
\* URL, which Url::parse refuses (RelativeUrlWithoutBase)
HasScheme(s) ==
  LET i == Find(s, ":")
  IN  /\ i > 1
      /\ s[1] \in Lower
      /\ \A j \in 2..(i - 1) : s[j] \in Lower \cup Digit \cup {"+", "-", "."}

\* the slashes a special scheme skips before its authority
RECURSIVE SkipSlashes(_)
SkipSlashes(s) ==
  IF Len(s) > 0 /\ s[1] \in {"/", "\\"} THEN SkipSlashes(Skip(s, 1)) ELSE s

\* host[:port] and the path that follows it
ParseAuthority(scheme, s) ==
  LET slash == Find(s, "/")
      auth == IF slash = 0 THEN s ELSE SubSeq(s, 1, slash - 1)
      rest == IF slash = 0 THEN <<>> ELSE Skip(s, slash - 1)
      colon == RFind(auth, ":")
      host == IF colon = 0 THEN auth ELSE SubSeq(auth, 1, colon - 1)
      digits == IF colon = 0 THEN <<>> ELSE Skip(auth, colon)
      number == IF AllDigits(digits) THEN CheckedDecimal(digits, U16Max) ELSE None
      port == IF Len(digits) = 0 THEN None
              ELSE IF number = Some(DefaultPort(scheme)) THEN None
              ELSE number
  IN  IF Len(host) = 0 /\ IsSpecial(scheme) THEN ParseError      \* EmptyHost
      ELSE IF ~IsSome(number) THEN ParseError                    \* InvalidPort
      ELSE [ok |-> TRUE, scheme |-> scheme,
            host |-> IF Len(host) = 0 THEN None ELSE Some(host),
            port |-> port,
            path |-> IF Len(rest) = 0 /\ IsSpecial(scheme) THEN <<"/">> ELSE rest]

UrlParse(s) ==
  IF ~HasScheme(s) THEN ParseError
  ELSE LET i == Find(s, ":")
           scheme == SubSeq(s, 1, i - 1)
           rest == Skip(s, i)
       IN  IF IsSpecial(scheme) THEN ParseAuthority(scheme, SkipSlashes(rest))
           ELSE IF StartsWith(rest, <<"/", "/">>)
                THEN ParseAuthority(scheme, Skip(rest, 2))
           \* no authority: a path ("/x") or an opaque, cannot-be-a-base one
           ELSE [ok |-> TRUE, scheme |-> scheme, host |-> None,
                 port |-> None, path |-> rest]

\* Url::host_str
HostStr(u) == u.host

\* Url::path_segments: None for a URL whose path does not start with '/'
PathSegments(u) ==
  IF StartsWith(u.path, <<"/">>) THEN Some(Split(Skip(u.path, 1), "/")) ELSE None

(***************************************************************************)
(* str::parse::<i32>: an optional sign, then one or more digits, and a     *)
(* value that fits the type; None stands for Err.                          *)
(***************************************************************************)
I32Max == 2147483647

ParseI32(s) ==
  LET signed == Len(s) > 0 /\ s[1] \in {"+", "-"}
      digits == IF signed THEN Skip(s, 1) ELSE s
  IN  IF Len(digits) = 0 \/ ~AllDigits(digits) THEN None
      ELSE IF signed /\ s[1] = "-" THEN CheckedNegative(digits, 0 - I32Max - 1)
      ELSE CheckedDecimal(digits, I32Max)

(***************************************************************************)
(* chrono's NaiveDate::parse_from_str(s, "%Y%m%d") and                     *)
(* NaiveTime::parse_from_str(s, "%H%M%S").  Each numeric item takes the    *)
(* digits it finds, at least one and at most its width (4 for %Y, which    *)
(* takes any number after an explicit sign, 2 for the others); the string  *)
(* must be used up, and the fields must form a date or a time of day.      *)
(***************************************************************************)
\* the years a NaiveDate can hold: -262144..262143
MaxYear == 262143

\* the number of leading digits of s, at most max
RECURSIVE CountDigits(_, _)
CountDigits(s, max) ==
  IF max = 0 \/ Len(s) = 0 \/ ~(s[1] \in Digit) THEN 0
  ELSE 1 + CountDigits(Skip(s, 1), max - 1)

\* scan::number(s, 1, max): [ok, value, rest]; a value that is out of the
\* range of every field is an error
ScanNumber(s, max) ==
  LET n == CountDigits(s, max)
      v == CheckedDecimal(SubSeq(s, 1, n), MaxYear + 1)
  IN  IF n = 0 \/ ~IsSome(v) THEN [ok |-> FALSE, value |-> 0, rest |-> s]
      ELSE [ok |-> TRUE, value |-> Unwrap(v), rest |-> Skip(s, n)]

\* a signed item: after '+' or '-' the width is not respected
ScanYear(s) ==
  IF Len(s) > 0 /\ s[1] \in {"+", "-"}
  THEN LET r == ScanNumber(Skip(s, 1), Len(s))
       IN  [r EXCEPT !.value = IF s[1] = "-" THEN 0 - r.value ELSE r.value]
  ELSE ScanNumber(s, 4)

IsLeapYear(y) == (y % 4 = 0 /\ y % 100 # 0) \/ y % 400 = 0

DaysInMonth(y, m) ==
  IF m = 2 THEN (IF IsLeapYear(y) THEN 29 ELSE 28)
  ELSE IF m \in {4, 6, 9, 11} THEN 30 ELSE 31

\* NaiveDate::from_ymd_opt
IsDate(y, m, d) ==
  /\ y <= MaxYear /\ y >= 0 - MaxYear - 1
  /\ m \in 1..12
  /\ d >= 1 /\ d <= DaysInMonth(y, m)

ParseDate(s) ==
  LET y == ScanYear(s)
      m == ScanNumber(y.rest, 2)
      d == ScanNumber(m.rest, 2)
  IN  IF y.ok /\ m.ok /\ d.ok /\ Len(d.rest) = 0 /\ IsDate(y.value, m.value, d.value)
      THEN Some([year |-> y.value, month |-> m.value, day |-> d.value])
      ELSE None

\* a second of 60 is a leap second: second 59 and a full extra second
ParseTime(s) ==
  LET h == ScanNumber(s, 2)
      m == ScanNumber(h.rest, 2)
      sec == ScanNumber(m.rest, 2)
  IN  IF /\ h.ok /\ m.ok /\ sec.ok /\ Len(sec.rest) = 0
         /\ h.value <= 23 /\ m.value <= 59 /\ sec.value <= 60
      THEN Some([hour |-> h.value, minute |-> m.value,
                 second |-> IF sec.value = 60 THEN 59 ELSE sec.value,
                 leap |-> sec.value = 60])
      ELSE None

\* NaiveDate::from_ymd(1970, 1, 1)
DefaultDate == [year |-> 1970, month |-> 1, day |-> 1]

\* NaiveTime::from_hms(0, 1, 1)
DefaultTime == [hour |-> 0, minute |-> 1, second |-> 1, leap |-> FALSE]

\* Option::unwrap_or
UnwrapOr(o, default) == IF IsSome(o) THEN Unwrap(o) ELSE default

(***************************************************************************)
(* String literals of the code.                                            *)
(***************************************************************************)
Empty == <<>>
\* "bragi_"
BragiPrefix == <<"b","r","a","g","i","_">>
\* "elasticsearch_"
ElasticsearchPrefix == <<"e","l","a","s","t","i","c","s","e","a","r","c","h","_">>
\* "/status"
StatusPath == <<"/","s","t","a","t","u","s">>
\* "/_cat/indices?format=json"
IndicesPath ==
  <<"/","_","c","a","t","/","i","n","d","i","c","e","s","?",
    "f","o","r","m","a","t","=","j","s","o","n">>
\* "://"
SchemeSeparator == <<":","/","/">>
\* "munin"
Munin == <<"m","u","n","i","n">>
\* "priv."
PrivMarker == <<"p","r","i","v",".">>

(***************************************************************************)
(* Result<T, error::Error> of the combinator chains.  A panic (an unwrap   *)
(* of None, an index out of bounds) is the third outcome: it unwinds       *)
(* through every caller.                                                   *)
(***************************************************************************)
Ok(x) == [tag |-> "Ok", val |-> <<x>>, err |-> ""]
Err(e) == [tag |-> "Err", val |-> <<>>, err |-> e]
Panic == [tag |-> "Panic", val |-> <<>>, err |-> ""]

(***************************************************************************)
(* What a remote request comes to: no response (reqwest::get is Err), a    *)
(* response whose body json() cannot decode into the expected type, or a   *)
(* response with a body that decodes.                                      *)
(***************************************************************************)
Unasked == [kind |-> "unasked", body |-> <<>>]
Transport == [kind |-> "err", body |-> <<>>]
Undecodable == [kind |-> "undecodable", body |-> <<>>]
Json(b) == [kind |-> "json", body |-> <<b>>]

(***************************************************************************)
(* BragiInfo::new                                                          *)
(***************************************************************************)
\* a variant that fills url from the label
BragiInfoNewUrlFromLabel(label, url, t) ==
  [label |-> label,
   url |-> label,
   version |-> Empty,
   status |-> "BragiNotAvailable",
   updated_at |-> t,
   elastic |-> None]

BragiInfoNew(label, url, t) ==
  [label |-> label,
   url |-> url,
   version |-> Empty,
   status |-> "BragiNotAvailable",
   updated_at |-> t,
   elastic |-> None]

(***************************************************************************)
(* check_accessible: any response passes, its body is not read.            *)
(***************************************************************************)
\* a variant that passes whatever the request came to
CheckAccessibleAlways(env, url, o) == Ok([env |-> env, url |-> url])

\* a variant that decodes the body of the response
CheckAccessibleDecodes(env, url, o) ==
  IF o.kind \in {"err", "undecodable"} THEN Err("NotAccessible")
  ELSE Ok([env |-> env, url |-> url])

CheckAccessibleResult(env, url, o) ==
  IF o.kind = "err" THEN Err("NotAccessible") ELSE Ok([env |-> env, url |-> url])

(***************************************************************************)
(* check_bragi_status, given the outcome o of GET {url}/status.            *)
(***************************************************************************)
ElasticUrl(elastic) ==
  IF ~IsSome(elastic.port)
  THEN elastic.scheme \o SchemeSeparator \o Unwrap(HostStr(elastic))
  ELSE elastic.scheme \o SchemeSeparator \o Unwrap(HostStr(elastic))
         \o <<":">> \o FormatInt(Unwrap(elastic.port))

\* elastic.path_segments().unwrap().next().unwrap_or("munin")
IndexPrefix(elastic) ==
  LET segments == Unwrap(PathSegments(elastic))
  IN  IF Len(segments) > 0 THEN segments[1] ELSE Munin

\* a variant that leaves the version of the record empty
StatusInfoNoVersion(env, url, status, elastic, t) ==
  [label |-> BragiPrefix \o env,
   url |-> url,
   version |-> Empty,
   status |-> "Available",
   elastic |-> Some([label |-> ElasticsearchPrefix \o env,
                     url |-> ElasticUrl(elastic),
                     name |-> Empty,
                     status |-> "NotAvailable",
                     version |-> Empty,
                     indices |-> <<>>,
                     index_prefix |-> IndexPrefix(elastic),
                     updated_at |-> t]),
   updated_at |-> t]

\* the BragiInfo of lines 214-230
StatusInfo(env, url, status, elastic, t) ==
  [label |-> BragiPrefix \o env,
   url |-> url,
   version |-> status.version,
   status |-> "Available",
   elastic |-> Some([label |-> ElasticsearchPrefix \o env,
                     url |-> ElasticUrl(elastic),
                     name |-> Empty,
                     status |-> "NotAvailable",
                     version |-> Empty,
                     indices |-> <<>>,
                     index_prefix |-> IndexPrefix(elastic),
                     updated_at |-> t]),
   updated_at |-> t]

\* a variant that reports an 'es' value that is no URL as a service without
\* backend instead of an error
CheckBragiStatusNoBackend(env, url, o, t) ==
  IF o.kind = "err" THEN Err("StatusNotAccessible")
  ELSE IF o.kind = "undecodable" THEN Err("StatusNotReadable")
  ELSE LET status == Unwrap(o.body)
           elastic == UrlParse(status.elasticsearch)
       IN  IF ~elastic.ok
           THEN Ok([label |-> BragiPrefix \o env,
                    url |-> url,
                    version |-> status.version,
                    status |-> "ElasticsearchNotAvailable",
                    elastic |-> None,
                    updated_at |-> t])
           ELSE IF ~IsSome(HostStr(elastic)) THEN Panic
           ELSE IF ~IsSome(PathSegments(elastic)) THEN Panic
           ELSE Ok(StatusInfo(env, url, status, elastic, t))

CheckBragiStatusResult(env, url, o, t) ==
  IF o.kind = "err" THEN Err("StatusNotAccessible")
  ELSE IF o.kind = "undecodable" THEN Err("StatusNotReadable")
  ELSE LET status == Unwrap(o.body)
           elastic == UrlParse(status.elasticsearch)
       IN  IF ~elastic.ok THEN Err("ElasticsearchURLNotReadable")
           ELSE IF ~IsSome(HostStr(elastic)) THEN Panic
           ELSE IF ~IsSome(PathSegments(elastic)) THEN Panic
           ELSE Ok(StatusInfo(env, url, status, elastic, t))

(***************************************************************************)
(* foo: the listing of GET {es_info.url}/_cat/indices?format=json, each    *)
(* record decoded by the closure of lines 255-279.                         *)
(***************************************************************************)
\* zs[n] of a Vec: a panic when n is out of bounds
InBounds(zs, n) == n < Len(zs)

\* the closure reads zs[2], zs[1], zs[3] and zs[4]
IndexPanics(i) ==
  LET zs == Split(i.index, "_")
  IN  ~(InBounds(zs, 2) /\ InBounds(zs, 1) /\ InBounds(zs, 3) /\ InBounds(zs, 4))

\* a variant that strips "priv" and keeps the dot
IndexInfoKeepsDot(i, t) ==
  LET zs == Split(i.index, "_")
      private == StartsWith(zs[3], PrivMarker)
  IN  [label |-> i.index,
       place_type |-> zs[2],
       coverage |-> IF private THEN Skip(zs[3], 4) ELSE zs[3],
       private |-> IF private THEN "Private" ELSE "Public",
       created_at |-> [date |-> UnwrapOr(ParseDate(zs[4]), DefaultDate),
                       time |-> UnwrapOr(ParseTime(zs[5]), DefaultTime)],
       count |-> UnwrapOr(ParseI32(i.count), 0),
       updated_at |-> t]

\* a variant that defaults date and time together when either does not parse
IndexInfoWholeDefault(i, t) ==
  LET zs == Split(i.index, "_")
      private == StartsWith(zs[3], PrivMarker)
      date == ParseDate(zs[4])
      time == ParseTime(zs[5])
      parsed == IsSome(date) /\ IsSome(time)
  IN  [label |-> i.index,
       place_type |-> zs[2],
       coverage |-> IF private THEN Skip(zs[3], 5) ELSE zs[3],
       private |-> IF private THEN "Private" ELSE "Public",
       created_at |-> [date |-> IF parsed THEN Unwrap(date) ELSE DefaultDate,
                       time |-> IF parsed THEN Unwrap(time) ELSE DefaultTime],
       count |-> UnwrapOr(ParseI32(i.count), 0),
       updated_at |-> t]

IndexInfo(i, t) ==
  LET zs == Split(i.index, "_")
      private == StartsWith(zs[3], PrivMarker)
  IN  [label |-> i.index,
       place_type |-> zs[2],
       coverage |-> IF private THEN Skip(zs[3], 5) ELSE zs[3],
       private |-> IF private THEN "Private" ELSE "Public",
       created_at |-> [date |-> UnwrapOr(ParseDate(zs[4]), DefaultDate),
                       time |-> UnwrapOr(ParseTime(zs[5]), DefaultTime)],
       count |-> UnwrapOr(ParseI32(i.count), 0),
       updated_at |-> t]

\* a variant that collects the entries in reverse
MapIndicesReversed(is, t) == [n \in 1..Len(is) |-> IndexInfo(is[Len(is) + 1 - n], t)]

\* is.iter().map(..).collect()
MapIndices(is, t) == [n \in 1..Len(is) |-> IndexInfo(is[n], t)]

\* a variant that fills the indices and leaves the status as it was
FooKeepsStatus(es_info, o, t) ==
  IF o.kind = "err" THEN Err("NotAccessible")
  ELSE IF o.kind = "undecodable"
       THEN Ok([es_info EXCEPT !.indices = <<>>, !.updated_at = t])
  ELSE LET is == Unwrap(o.body)
       IN  IF \E n \in 1..Len(is) : IndexPanics(is[n]) THEN Panic
           ELSE Ok([es_info EXCEPT !.indices = MapIndices(is, t),
                                   !.updated_at = t])

Foo(es_info, o, t) ==
  IF o.kind = "err" THEN Err("NotAccessible")
  ELSE IF o.kind = "undecodable"
       THEN Ok([es_info EXCEPT !.status = "NotAvailable",
                               !.indices = <<>>,
                               !.updated_at = t])
  ELSE LET is == Unwrap(o.body)
       IN  IF \E n \in 1..Len(is) : IndexPanics(is[n]) THEN Panic
           ELSE Ok([es_info EXCEPT !.status = "Available",
                                   !.indices = MapIndices(is, t),
                                   !.updated_at = t])

(***************************************************************************)
(* update_elasticsearch_indices                                            *)
(***************************************************************************)
\* a variant that answers an Err of foo with the record of the status stage
\* without its backend
UpdateElasticsearchIndicesDropsBackend(info, o, t) ==
  LET future == IF IsSome(info.elastic) THEN Foo(Unwrap(info.elastic), o, t)
                ELSE Err("MiscError")
  IN  IF future.tag = "Panic" THEN Panic
      ELSE IF future.tag = "Err" THEN Ok([info EXCEPT !.elastic = None])
      ELSE Ok([info EXCEPT !.elastic = Some(Unwrap(future.val))])

UpdateElasticsearchIndicesResult(info, o, t) ==
  LET label == info.label
      url == info.label
      future == IF IsSome(info.elastic) THEN Foo(Unwrap(info.elastic), o, t)
                ELSE Err("MiscError")
  IN  IF future.tag = "Panic" THEN Panic
      ELSE IF future.tag = "Err" THEN Ok(BragiInfoNew(label, url, t))
      ELSE Ok([info EXCEPT !.elastic = Some(Unwrap(future.val))])

(***************************************************************************)
(* From<Vec<BragiInfo>> for MultiEnvironmentsResponseBody                  *)
(***************************************************************************)
\* a variant that counts the available environments only
FromAvailableEnvironments(environments) ==
  IF Len(environments) > I32Max THEN Panic
  ELSE Ok([environments |-> environments,
           environments_count |->
             Cardinality({n \in 1..Len(environments) :
                            environments[n].status = "Available"})])

FromEnvironments(environments) ==
  IF Len(environments) > I32Max THEN Panic
  ELSE Ok([environments |-> environments,
           environments_count |-> Len(environments)])

(***************************************************************************)
(* derive(Serialize): the JSON value serde writes for each type.  A JSON   *)
(* object is the sequence of its members in the order of the fields; a     *)
(* number is its decimal text.                                             *)
(***************************************************************************)
JString(s) == [json |-> "string", text |-> s]
JNumber(digits) == [json |-> "number", text |-> digits]
JNull == [json |-> "null"]
JArray(items) == [json |-> "array", items |-> items]
JObject(members) == [json |-> "object", members |-> members]
Member(key, value) == [key |-> key, value |-> value]

\* format!("{}", n) of an i32
RECURSIVE FormatI32(_)
FormatI32(n) ==
  IF n >= 0 THEN FormatInt(n)
  ELSE IF n > 0 - 10 THEN <<"-", DigitChar(0 - n)>>
  ELSE LET d == (10 - (n % 10)) % 10
       IN  FormatI32((n + d) \div 10) \o <<DigitChar(d)>>

\* n written in at least width digits
RECURSIVE Padded(_, _)
Padded(n, width) ==
  IF Len(FormatInt(n)) >= width THEN FormatInt(n)
  ELSE <<"0">> \o Padded(n, width - 1)

\* a DateTime<Utc> as serde writes it: "2021-01-01T12:00:00Z"; a leap
\* second is written as second 60
FormatDateTime(dt) ==
  Padded(dt.date.year, 4) \o <<"-">> \o Padded(dt.date.month, 2) \o <<"-">>
    \o Padded(dt.date.day, 2) \o <<"T">> \o Padded(dt.time.hour, 2) \o <<":">>
    \o Padded(dt.time.minute, 2) \o <<":">>
    \o Padded(IF dt.time.leap THEN 60 ELSE dt.time.second, 2) \o <<"Z">>

\* the reading n of the model's clock is written as the text of n
FormatInstant(t) == FormatInt(t)

\* rename_all = "snake_case" of the variants of the three enums
SnakeCase(variant) ==
  CASE variant = "Private" -> <<"p","r","i","v","a","t","e">>
    [] variant = "Public" -> <<"p","u","b","l","i","c">>
    [] variant = "Available" -> <<"a","v","a","i","l","a","b","l","e">>
    [] variant = "NotAvailable" ->
         <<"n","o","t","_","a","v","a","i","l","a","b","l","e">>
    [] variant = "BragiNotAvailable" ->
         <<"b","r","a","g","i","_","n","o","t","_","a","v","a","i","l","a","b","l","e">>
    [] variant = "ElasticsearchNotAvailable" ->
         <<"e","l","a","s","t","i","c","s","e","a","r","c","h","_",
           "n","o","t","_","a","v","a","i","l","a","b","l","e">>

\* a variant that holds for no status, so that no field is skipped
IsPublicNever(status) == FALSE

IsPublic(status) == status = "Public"

\* ElasticsearchIndexInfo: private is skipped when is_public holds
SerializeIndexInfo(i) ==
  JObject(<<Member("label", JString(i.label)),
            Member("place_type", JString(i.place_type)),
            Member("coverage", JString(i.coverage))>>
          \o (IF IsPublic(i.private) THEN <<>>
              ELSE <<Member("private", JString(SnakeCase(i.private)))>>)
          \o <<Member("created_at", JString(FormatDateTime(i.created_at))),
               Member("count", JNumber(FormatI32(i.count))),
               Member("updated_at", JString(FormatInstant(i.updated_at)))>>)

\* ElasticsearchInfo; indices are its indices as they are written
SerializeElasticsearchInfo(es, indices) ==
  JObject(<<Member("label", JString(es.label)),
            Member("url", JString(es.url)),
            Member("name", JString(es.name)),
            Member("status", JString(SnakeCase(es.status))),
            Member("version", JString(es.version)),
            Member("indices",
                   JArray(indices)),
            Member("index_prefix", JString(es.index_prefix)),
            Member("updated_at", JString(FormatInstant(es.updated_at)))>>)

\* BragiInfo; an Option that is None is written as null; indices are the
\* indices of its backend as they are written
SerializeBragiInfo(info, indices) ==
  JObject(<<Member("label", JString(info.label)),
            Member("url", JString(info.url)),
            Member("version", JString(info.version)),
            Member("status", JString(SnakeCase(info.status))),
            Member("updated_at", JString(FormatInstant(info.updated_at))),
            Member("elastic",
                   IF IsSome(info.elastic)
                   THEN SerializeElasticsearchInfo(Unwrap(info.elastic), indices)
                   ELSE JNull)>>)

\* the indices of the backend of a BragiInfo, each as it is written
SerializeIndices(info) ==
  IF IsSome(info.elastic)
  THEN [n \in 1..Len(Unwrap(info.elastic).indices) |->
          SerializeIndexInfo(Unwrap(info.elastic).indices[n])]
  ELSE <<>>

\* MultiEnvironmentsResponseBody, rename_all = "camelCase"
SerializeResponseBody(body) ==
  JObject(<<Member("environments",
                   JArray([n \in 1..Len(body.environments) |->
                             SerializeBragiInfo(body.environments[n],
                                                SerializeIndices(body.environments[n]))])),
            Member("environmentsCount", JNumber(FormatI32(body.environments_count)))>>)

(***************************************************************************)
(* main.rs, the command-line program: main reads env.json, checks its      *)
(* argument, runs the chain of run() and prints the record as JSON.        *)
(* check_accessible and check_bragi_status are those of the server, word   *)
(* for word; get_url, update_elasticsearch_indices and the record that     *)
(* replaces an Err are its own.                                            *)
(***************************************************************************)
\* items.join(sep)
RECURSIVE Join(_, _)
Join(items, sep) ==
  IF Len(items) = 0 THEN Empty
  ELSE IF Len(items) = 1 THEN items[1]
  ELSE items[1] \o sep \o Join(Tail(items), sep)

\* str::contains
Contains(s, sub) ==
  \E k \in 0..(Len(s) - Len(sub)) : SubSeq(s, k + 1, k + Len(sub)) = sub

\* the names of env.json joined by ", "
EnvList(envs) == Join([n \in 1..Len(envs) |-> envs[n].env], <<",", " ">>)

\* the entries of env.json named env
Named(envs, env) == {n \in 1..Len(envs) : envs[n].env = env}

\* the entry a HashMap collected from envs keeps for env: the last one
Kept(envs, env) == CHOOSE n \in Named(envs, env) : \A m \in Named(envs, env) : m <= n

GetUrl(envs, env) ==
  IF Named(envs, env) = {} THEN Err("Environment")
  ELSE Ok([env |-> env, url |-> envs[Kept(envs, env)].url])

\* a u32 is written as two 16-bit halves: its value is hi * 65536 + lo
U32(hi, lo) == [hi |-> hi, lo |-> lo]

\* the value of a string of digits as a u32, with checked arithmetic
RECURSIVE CheckedU32(_)
CheckedU32(s) ==
  IF Len(s) = 0 THEN Some(U32(0, 0))
  ELSE LET p == CheckedU32(SubSeq(s, 1, Len(s) - 1))
           lo == 10 * Unwrap(p).lo + DigitValue(s[Len(s)])
           hi == 10 * Unwrap(p).hi + (lo \div (U16Max + 1))
       IN  IF ~IsSome(p) THEN None
           ELSE IF hi > U16Max THEN None
           ELSE Some(U32(hi, lo % (U16Max + 1)))

\* str::parse::<u32>: an optional '+', then one or more digits
ParseU32(s) ==
  LET digits == IF Len(s) > 0 /\ s[1] = "+" THEN Skip(s, 1) ELSE s
  IN  IF Len(digits) = 0 \/ ~AllDigits(digits) THEN None
      ELSE CheckedU32(digits)

\* format!("{}", n) of a u32
RECURSIVE FormatU32(_)
FormatU32(n) ==
  IF n.hi = 0 /\ n.lo < 10 THEN <<DigitChar(n.lo)>>
  ELSE LET r == (n.hi % 10) * (U16Max + 1) + n.lo
       IN  FormatU32(U32(n.hi \div 10, r \div 10)) \o <<DigitChar(r % 10)>>

\* the closure of update_elasticsearch_indices: the timestamp is the field
\* date and the count is a u32
CliIndexInfo(i, t) ==
  LET zs == Split(i.index, "_")
      private == StartsWith(zs[3], PrivMarker)
  IN  [label |-> i.index,
       place_type |-> zs[2],
       coverage |-> IF private THEN Skip(zs[3], 5) ELSE zs[3],
       private |-> IF private THEN "Private" ELSE "Public",
       date |-> [date |-> UnwrapOr(ParseDate(zs[4]), DefaultDate),
                 time |-> UnwrapOr(ParseTime(zs[5]), DefaultTime)],
       count |-> UnwrapOr(ParseU32(i.count), U32(0, 0)),
       updated_at |-> t]

CliMapIndices(is, t) == [n \in 1..Len(is) |-> CliIndexInfo(is[n], t)]

\* update_elasticsearch_indices of main.rs: a request that fails and a body
\* that does not decode both leave the backend NotAvailable
CliUpdateElasticsearchIndicesResult(info, o, t) ==
  IF ~IsSome(info.elastic) THEN Err("MiscError")
  ELSE LET es_info == Unwrap(info.elastic)
       IN  IF o.kind \in {"err", "undecodable"}
           THEN Ok([info EXCEPT !.elastic =
                      Some([es_info EXCEPT !.status = "NotAvailable",
                                           !.indices = <<>>,
                                           !.updated_at = t])])
           ELSE LET is == Unwrap(o.body)
                IN  IF \E n \in 1..Len(is) : IndexPanics(is[n]) THEN Panic
                    ELSE Ok([info EXCEPT !.elastic =
                               Some([es_info EXCEPT !.status = "Available",
                                                    !.indices = CliMapIndices(is, t),
                                                    !.updated_at = t])])

\* the record main prints when run returns an Err
CliFallback(env, t) ==
  [label |-> env,
   url |-> Empty,
   version |-> Empty,
   status |-> "BragiNotAvailable",
   updated_at |-> t,
   elastic |-> None]

\* ElasticsearchIndexInfo of main.rs
SerializeCliIndexInfo(i) ==
  JObject(<<Member("label", JString(i.label)),
            Member("place_type", JString(i.place_type)),
            Member("coverage", JString(i.coverage))>>
          \o (IF IsPublic(i.private) THEN <<>>
              ELSE <<Member("private", JString(SnakeCase(i.private)))>>)
          \o <<Member("date", JString(FormatDateTime(i.date))),
               Member("count", JNumber(FormatU32(i.count))),
               Member("updated_at", JString(FormatInstant(i.updated_at)))>>)

\* the indices of the backend of a BragiInfo of main.rs, each as it is written
SerializeCliIndices(info) ==
  IF IsSome(info.elastic)
  THEN [n \in 1..Len(Unwrap(info.elastic).indices) |->
          SerializeCliIndexInfo(Unwrap(info.elastic).indices[n])]
  ELSE <<>>

(***************************************************************************)
(* The inputs: registry entries and what the remote services answer.       *)
(***************************************************************************)
\* environment names: "prod", "dev", "qa", "int"
EnvNames ==
  <<<<"p","r","o","d">>, <<"d","e","v">>, <<"q","a">>, <<"i","n","t">>>>

\* the base url of each: "http://good", "http://bad", "http://good", "http://bad"
EnvUrls ==
  <<<<"h","t","t","p",":","/","/","g","o","o","d">>,
    <<"h","t","t","p",":","/","/","b","a","d">>,
    <<"h","t","t","p",":","/","/","g","o","o","d">>,
    <<"h","t","t","p",":","/","/","b","a","d">>>>

\* versions a /status body carries: "1.4", ""
Versions == {<<"1",".","4">>, Empty}

\* 'es' values a /status body carries
\* "http://es:9200/munin"
EsWithPath ==
  <<"h","t","t","p",":","/","/","e","s",":","9","2","0","0","/","m","u","n","i","n">>
\* "http://es:9200"
EsNoPath == <<"h","t","t","p",":","/","/","e","s",":","9","2","0","0">>
\* "http://es:80/idx": the default port
EsDefaultPort == <<"h","t","t","p",":","/","/","e","s",":","8","0","/","i","d","x">>
\* "es:9200": a URL of scheme "es" without host
EsNoScheme == <<"e","s",":","9","2","0","0">>
\* "tcp://es": a host and no path
EsNoSlash == <<"t","c","p",":","/","/","e","s">>
\* "es": not a URL
EsRelative == <<"e","s">>

EsValues == {EsWithPath, EsNoPath, EsDefaultPort, EsNoScheme, EsNoSlash, EsRelative}

\* BragiStatusDetails
StatusBody(version, es) ==
  [version |-> version, elasticsearch |-> es, status |-> <<"o","k">>]

StatusBodies == {StatusBody(v, es) : v \in Versions, es \in EsValues}

StatusBodiesFew == {StatusBody(<<"1",".","4">>, EsWithPath), StatusBody(Empty, EsNoScheme)}

\* index names
\* "munin_poi_fr_20210101_120000"
IndexPublic ==
  <<"m","u","n","i","n","_","p","o","i","_","f","r","_",
    "2","0","2","1","0","1","0","1","_","1","2","0","0","0","0">>
\* "munin_poi_priv.fr_bad_120000"
IndexPrivate ==
  <<"m","u","n","i","n","_","p","o","i","_","p","r","i","v",".","f","r","_",
    "b","a","d","_","1","2","0","0","0","0">>
\* "munin_addr_fr_20210101": four tokens
IndexFourTokens ==
  <<"m","u","n","i","n","_","a","d","d","r","_","f","r","_",
    "2","0","2","1","0","1","0","1">>
\* ".kibana": one token
IndexOneToken == <<".","k","i","b","a","n","a">>

IndexNames == {IndexPublic, IndexPrivate, IndexFourTokens}

\* docs.count values: "12", ""
Counts == {<<"1","2">>, Empty}

\* ElasticsearchIndexInfoDetails (the fields serde does not skip)
IndexDetails(index, count) ==
  [health |-> <<"g">>, status |-> <<"o">>, index |-> index, count |-> count]

AllIndexDetails == {IndexDetails(i, c) : i \in IndexNames, c \in Counts}

\* the sequences over S of length at most n
SeqsUpTo(S, n) == UNION {[1..m -> S] : m \in 0..n}

Listings == SeqsUpTo(AllIndexDetails, MaxListing)

ListingsFew ==
  {<<>>, <<IndexDetails(IndexPublic, <<"1","2">>)>>, <<IndexDetails(IndexOneToken, Empty)>>}

\* the tokens of the index names the decoder is run on
\* service types: "poi", "addr"
TypeTokens == {<<"p","o","i">>, <<"a","d","d","r">>}
\* coverage tokens: "fr", "priv.fr", "priv.", "priv"
CoverageTokens ==
  {<<"f","r">>, <<"p","r","i","v",".","f","r">>, <<"p","r","i","v",".">>,
   <<"p","r","i","v">>}
\* date tokens: "20210101", "20210230", "2021011", "bad", ""
DateTokens ==
  {<<"2","0","2","1","0","1","0","1">>, <<"2","0","2","1","0","2","3","0">>,
   <<"2","0","2","1","0","1","1">>, <<"b","a","d">>, Empty}
\* time tokens: "120000", "250000", "12000", "235960", "bad", ""
TimeTokens ==
  {<<"1","2","0","0","0","0">>, <<"2","5","0","0","0","0">>,
   <<"1","2","0","0","0">>, <<"2","3","5","9","6","0">>, <<"b","a","d">>, Empty}
\* what follows the fifth token: nothing, or "_x"
Tails == {Empty, <<"_","x">>}

\* "munin_" type "_" coverage "_" date "_" time tail
DecodeLabel(type, coverage, date, time, tail) ==
  Munin \o <<"_">> \o type \o <<"_">> \o coverage \o <<"_">> \o date
    \o <<"_">> \o time \o tail

DecodeLabels ==
  {DecodeLabel(ty, c, d, t, x) :
     ty \in TypeTokens, c \in CoverageTokens, d \in DateTokens,
     t \in TimeTokens, x \in Tails}

\* docs.count values: "12", "007", "", "x", "3000000000", "-5", "+7"
DecodeCounts ==
  {<<"1","2">>, <<"0","0","7">>, Empty, <<"x">>,
   <<"3","0","0","0","0","0","0","0","0","0">>, <<"-","5">>, <<"+","7">>}

\* listings of one record
ListingsDecode == {<<IndexDetails(l, c)>> : l \in DecodeLabels, c \in DecodeCounts}

\* the outcomes of a request whose body is decoded
Outcomes(bodies) == {Transport, Undecodable} \cup {Json(b) : b \in bodies}

(***************************************************************************)
(* State.                                                                  *)
(***************************************************************************)
VARIABLES
  supplied,   \* the registry as the caller wrote it: a list of [env, url]
  iter,       \* the order context.envs.iter() yields the entries of supplied
  pc,         \* list_environments: "fold", "done", "panicked"
  acc,        \* the accumulator of try_fold
  response,   \* what list_environments returned: Option<Result<..>>
  stage,      \* probe_environment: the combinator that runs next
  chain,      \* the Result that flows through the combinators
  info,       \* the BragiInfo check_bragi_status returned: Option
  now,        \* the clock read by Utc::now()
  world,      \* per entry of supplied: the urls requested for it, in the
              \* order of the requests, and what each request came to
  output,     \* the response body of list_environments serialized: Option
  cli         \* the command-line program (main.rs) run on the same registry
              \* and the same answers

vars == <<supplied, iter, pc, acc, response, stage, chain, info, now, world, output, cli>>

NotAsked ==
  [requests |-> <<>>, root |-> Unasked, status |-> Unasked, indices |-> Unasked]

\* main has not started
CliStart ==
  [stage |-> "main", env |-> Empty, n |-> 0, chain |-> Err(""),
   requests |-> <<>>, bragi |-> None, printed |-> None]

\* the entries a registry draws from
Entries == {[env |-> EnvNames[n], url |-> EnvUrls[n]] : n \in 1..MaxEnvs}

\* the keys of a HashMap are distinct
Registries(n) ==
  {r \in SeqsUpTo(Entries, n) : \A i, j \in 1..Len(r) : r[i].env = r[j].env => i = j}

Permutations(n) == {f \in [1..n -> 1..n] : \A i, j \in 1..n : f[i] = f[j] => i = j}

InitWith(registries) ==
  /\ supplied \in registries
  /\ iter \in Permutations(Len(supplied))
  /\ pc = "fold"
  /\ acc = <<>>
  /\ response = None
  /\ stage = "idle"
  /\ chain = Err("")
  /\ info = None
  /\ now = 0
  /\ world = [i \in 1..Len(supplied) |-> NotAsked]
  /\ output = None
  /\ cli = CliStart

\* the entry probe_environment is running on
Current == iter[Len(acc) + 1]
CurrentEnv == supplied[Current].env
CurrentUrl == supplied[Current].url

\* and_then runs the next combinator on Ok; or_else takes an Err
After(result, next) ==
  IF result.tag = "Panic" THEN "panicked"
  ELSE IF result.tag = "Ok" THEN next
  ELSE "or_else"

Unwind(result) == IF result.tag = "Panic" THEN "panicked" ELSE pc

(***************************************************************************)
(* probe_environment, one action per combinator of its chain.              *)
(***************************************************************************)
CheckAccessible(outcomes) ==
  /\ pc = "fold"
  /\ stage = "idle"
  /\ Len(acc) < Len(iter)
  /\ \E o \in outcomes :
       LET result == CheckAccessibleResult(CurrentEnv, CurrentUrl, o)
       IN  /\ world' = [world EXCEPT ![Current].root = o,
                                     ![Current].requests = Append(@, CurrentUrl)]
           /\ chain' = result
           /\ stage' = After(result, "check_bragi_status")
  /\ UNCHANGED <<supplied, iter, pc, acc, response, info, now, output, cli>>

CheckBragiStatus(bodies) ==
  /\ pc = "fold"
  /\ stage = "check_bragi_status"
  /\ \E o \in Outcomes(bodies) :
       LET arg == Unwrap(chain.val)
           status_url == arg.url \o StatusPath
           result == CheckBragiStatusResult(arg.env, arg.url, o, now)
       IN  /\ world' = [world EXCEPT ![Current].status = o,
                                     ![Current].requests = Append(@, status_url)]
           /\ chain' = result
           /\ info' = result.val
           /\ stage' = After(result, "update_elasticsearch_indices")
           /\ pc' = Unwind(result)
  /\ UNCHANGED <<supplied, iter, acc, response, now, output, cli>>

UpdateElasticsearchIndices(listings) ==
  /\ pc = "fold"
  /\ stage = "update_elasticsearch_indices"
  /\ LET arg == Unwrap(chain.val)
     IN  IF IsSome(arg.elastic)
         THEN \E o \in Outcomes(listings) :
                LET indices_url == Unwrap(arg.elastic).url \o IndicesPath
                    result == UpdateElasticsearchIndicesResult(arg, o, now)
                IN  /\ world' = [world EXCEPT
                                   ![Current].indices = o,
                                   ![Current].requests = Append(@, indices_url)]
                    /\ chain' = result
                    /\ stage' = After(result, "return")
                    /\ pc' = Unwind(result)
         \* without a backend foo is not called and nothing is requested
         ELSE LET result == UpdateElasticsearchIndicesResult(arg, Unasked, now)
              IN  /\ chain' = result
                  /\ stage' = After(result, "return")
                  /\ pc' = Unwind(result)
                  /\ UNCHANGED world
  /\ UNCHANGED <<supplied, iter, acc, response, info, now, output, cli>>

\* .or_else(|_err| async { Ok(BragiInfo::new(env, url)) })
OrElse ==
  /\ pc = "fold"
  /\ stage = "or_else"
  /\ chain' = Ok(BragiInfoNew(CurrentEnv, CurrentUrl, now))
  /\ stage' = "return"
  /\ UNCHANGED <<supplied, iter, pc, acc, response, info, now, world, output, cli>>

(***************************************************************************)
(* list_environments: the body of try_fold, and the conversion of the      *)
(* folded Vec once the iterator is exhausted.                              *)
(***************************************************************************)
Push ==
  /\ pc = "fold"
  /\ stage = "return"
  /\ IF chain.tag = "Ok"
     THEN /\ acc' = Append(acc, Unwrap(chain.val))
          /\ UNCHANGED <<pc, response>>
     ELSE /\ pc' = "done"
          /\ response' = Some(Err(chain.err))
          /\ UNCHANGED acc
  /\ stage' = "idle"
  /\ chain' = Err("")
  /\ info' = None
  /\ UNCHANGED <<supplied, iter, now, world, output, cli>>

Into ==
  /\ pc = "fold"
  /\ stage = "idle"
  /\ Len(acc) = Len(iter)
  /\ LET result == FromEnvironments(acc)
     IN  /\ pc' = IF result.tag = "Panic" THEN "panicked" ELSE "done"
         /\ response' = IF result.tag = "Panic" THEN None ELSE Some(result)
  /\ UNCHANGED <<supplied, iter, acc, stage, chain, info, now, world, output, cli>>

\* the caller writes the response body as JSON
Serialize ==
  /\ pc = "done"
  /\ IsSome(response)
  /\ Unwrap(response).tag = "Ok"
  /\ output = None
  /\ output' = Some(SerializeResponseBody(Unwrap(Unwrap(response).val)))
  /\ UNCHANGED <<supplied, iter, pc, acc, response, stage, chain, info, now, world, cli>>

\* time passes between two readings of the clock of one probe
Tick ==
  /\ pc = "fold"
  /\ stage \notin {"idle", "return"}
  /\ now < MaxClock
  /\ now' = now + 1
  /\ UNCHANGED <<supplied, iter, pc, acc, response, stage, chain, info, world, output, cli>>

(***************************************************************************)
(* The command-line program.  It is run on the registry of the server and  *)
(* against the same answers: it makes a request once the probe of the      *)
(* server has made the same request, and receives the same answer.         *)
(***************************************************************************)
\* the arguments main is called with: a name of the registry, "pro" or "x"
CliArgs ==
  {supplied[n].env : n \in 1..Len(supplied)} \cup {<<"p","r","o">>, <<"x">>}

\* and_then runs the next function on Ok; unwrap_or takes an Err
CliAfter(result, next) ==
  IF result.tag = "Panic" THEN "panicked"
  ELSE IF result.tag = "Ok" THEN next
  ELSE "unwrap_or"

\* main up to the call of run: an argument that is not part of the list of
\* names is refused
CliMain ==
  /\ cli.stage = "main"
  /\ \E env \in CliArgs :
       cli' = [cli EXCEPT !.env = env,
                          !.stage = IF Contains(EnvList(supplied), env)
                                    THEN "get_url" ELSE "exit"]
  /\ UNCHANGED <<supplied, iter, pc, acc, response, stage, chain, info, now, world, output>>

CliGetUrl ==
  /\ cli.stage = "get_url"
  /\ LET result == GetUrl(supplied, cli.env)
     IN  cli' = [cli EXCEPT !.chain = result,
                            !.n = IF result.tag = "Ok" THEN Kept(supplied, cli.env) ELSE 0,
                            !.stage = CliAfter(result, "check_accessible")]
  /\ UNCHANGED <<supplied, iter, pc, acc, response, stage, chain, info, now, world, output>>

CliCheckAccessible ==
  /\ cli.stage = "check_accessible"
  /\ world[cli.n].root # Unasked
  /\ LET arg == Unwrap(cli.chain.val)
         result == CheckAccessibleResult(arg.env, arg.url, world[cli.n].root)
     IN  cli' = [cli EXCEPT !.chain = result,
                            !.requests = Append(@, arg.url),
                            !.stage = CliAfter(result, "check_bragi_status")]
  /\ UNCHANGED <<supplied, iter, pc, acc, response, stage, chain, info, now, world, output>>

CliCheckBragiStatus ==
  /\ cli.stage = "check_bragi_status"
  /\ world[cli.n].status # Unasked
  /\ LET arg == Unwrap(cli.chain.val)
         result == CheckBragiStatusResult(arg.env, arg.url, world[cli.n].status, now)
     IN  cli' = [cli EXCEPT !.chain = result,
                            !.requests = Append(@, arg.url \o StatusPath),
                            !.stage = CliAfter(result, "update_elasticsearch_indices")]
  /\ UNCHANGED <<supplied, iter, pc, acc, response, stage, chain, info, now, world, output>>

CliUpdateElasticsearchIndices ==
  /\ cli.stage = "update_elasticsearch_indices"
  /\ LET arg == Unwrap(cli.chain.val)
     IN  IF IsSome(arg.elastic)
         THEN /\ world[cli.n].indices # Unasked
              /\ LET result == CliUpdateElasticsearchIndicesResult(
                                 arg, world[cli.n].indices, now)
                 IN  cli' = [cli EXCEPT
                               !.chain = result,
                               !.requests = Append(@, Unwrap(arg.elastic).url \o IndicesPath),
                               !.stage = CliAfter(result, "unwrap_or")]
         \* without a backend nothing is requested
         ELSE LET result == CliUpdateElasticsearchIndicesResult(arg, Unasked, now)
              IN  cli' = [cli EXCEPT !.chain = result,
                                     !.stage = CliAfter(result, "unwrap_or")]
  /\ UNCHANGED <<supplied, iter, pc, acc, response, stage, chain, info, now, world, output>>

\* run(&env).unwrap_or(..), serde_json::to_string and println
CliPrint ==
  /\ cli.stage = "unwrap_or"
  /\ LET bragi == IF cli.chain.tag = "Ok" THEN Unwrap(cli.chain.val)
                  ELSE CliFallback(cli.env, now)
     IN  cli' = [cli EXCEPT
                   !.bragi = Some(bragi),
                   !.printed = Some(SerializeBragiInfo(bragi, SerializeCliIndices(bragi))),
                   !.stage = "exit"]
  /\ UNCHANGED <<supplied, iter, pc, acc, response, stage, chain, info, now, world, output>>

(***************************************************************************)
(* Spec: one probe at a time, over every sampled answer of the services.   *)
(* SpecList: a registry of several environments, over fewer answers.       *)
(***************************************************************************)
Init == InitWith(Registries(1))

Next ==
  \/ CheckAccessible(Outcomes({Empty}))
  \/ CheckBragiStatus(StatusBodies)
  \/ UpdateElasticsearchIndices(Listings)
  \/ OrElse
  \/ Push
  \/ Into
  \/ Serialize
  \/ Tick

Spec == Init /\ [][Next]_vars

InitList == InitWith(Registries(MaxEnvs))

NextList ==
  \/ CheckAccessible({Transport, Json(Empty)})
  \/ CheckBragiStatus(StatusBodiesFew)
  \/ UpdateElasticsearchIndices(ListingsFew)
  \/ OrElse
  \/ Push
  \/ Into
  \/ Serialize

SpecList == InitList /\ [][NextList]_vars

(***************************************************************************)
(* SpecDecode: one probe of one environment whose listing holds one        *)
(* record, over index names and document counts of every sampled shape.    *)
(***************************************************************************)
InitDecode == InitWith({<<[env |-> EnvNames[1], url |-> EnvUrls[1]]>>})

NextDecode ==
  \/ CheckAccessible({Json(Empty)})
  \/ CheckBragiStatus({StatusBody(<<"1",".","4">>, EsWithPath)})
  \/ UpdateElasticsearchIndices(ListingsDecode)
  \/ OrElse
  \/ Push
  \/ Into
  \/ Serialize

SpecDecode == InitDecode /\ [][NextDecode]_vars

(***************************************************************************)
(* SpecCli: the server and the command-line program on one registry of at  *)
(* most one environment and the same answers.                              *)
(***************************************************************************)
\* "3000000000" and "-5" next to "12"
CliCounts == {<<"1","2">>, <<"3","0","0","0","0","0","0","0","0","0">>, <<"-","5">>}

ListingsCli ==
  {<<>>, <<IndexDetails(IndexFourTokens, Empty)>>}
    \cup {<<IndexDetails(i, c)>> : i \in {IndexPublic, IndexPrivate}, c \in CliCounts}

InitCli == InitWith(Registries(1))

NextCli ==
  \/ CheckAccessible({Transport, Json(Empty)})
  \/ CheckBragiStatus(StatusBodiesFew)
  \/ UpdateElasticsearchIndices(ListingsCli)
  \/ OrElse
  \/ Push
  \/ Into
  \/ Serialize
  \/ CliMain
  \/ CliGetUrl
  \/ CliCheckAccessible
  \/ CliCheckBragiStatus
  \/ CliUpdateElasticsearchIndices
  \/ CliPrint

SpecCli == InitCli /\ [][NextCli]_vars

(***************************************************************************)
(* Properties.                                                             *)
(***************************************************************************)
\* probe_environment has returned, and list_environments has not yet
\* taken its value
Returned == pc = "fold" /\ stage = "return" /\ chain.tag = "Ok"

\* the record probe_environment returned
Record == Unwrap(chain.val)

\* what the requests of the running probe came to
Asked == world[Current]

\* the status stage succeeded: check_bragi_status returned a BragiInfo
StatusSucceeded == IsSome(info)

\* the index-listing request failed, or its body is no listing
ListingFailed == Asked.indices.kind \in {"err", "undecodable"}

\* the labels a record of environment env carries
LabelsOf(env) == {env, BragiPrefix \o env}

\* C1: whatever the three requests come to, probe_environment returns a
\* status record: it never returns an error and never panics.
C1_AlwaysReturnsRecord ==
  /\ pc # "panicked"
  /\ stage = "return" => chain.tag = "Ok"

\* C2: when the reachability and status stages succeed and the listing
\* request fails or its body does not decode, the record is Available with a
\* backend that is NotAvailable and has no indices.
C2_BackendUnreachable ==
  (Returned /\ StatusSucceeded /\ ListingFailed) =>
    /\ Record.status = "Available"
    /\ IsSome(Record.elastic)
    /\ Unwrap(Record.elastic).status = "NotAvailable"
    /\ Unwrap(Record.elastic).indices = <<>>

\* C3: a failure of the index enumeration leaves label, url, version and
\* status = Available as the status stage produced them.
C3_ServiceFieldsKept ==
  (Returned /\ StatusSucceeded /\ ListingFailed) =>
    /\ Record.label = Unwrap(info).label
    /\ Record.url = Unwrap(info).url
    /\ Record.version = Unwrap(info).version
    /\ Record.status = "Available"

\* C4: when the request to baseUrl fails at transport level, the record is
\* label = name, url = baseUrl, BragiNotAvailable, version "", no backend.
C4_ServiceUnreachable ==
  (Returned /\ Asked.root.kind = "err") =>
    /\ Record.label = CurrentEnv
    /\ Record.url = CurrentUrl
    /\ Record.status = "BragiNotAvailable"
    /\ Record.version = Empty
    /\ Record.elastic = None

C4_Witness == Returned /\ Asked.root.kind = "err"

\* the /status body decoded and its 'es' value is no URL
EsUnparsable ==
  /\ Asked.status.kind = "json"
  /\ ~UrlParse(Unwrap(Asked.status.body).elasticsearch).ok

\* C5: when the /status request fails, or its body does not decode, or 'es'
\* does not parse as a URL, the record is the one a stage-1 failure returns.
C5_StatusFailureIsUnreachable ==
  (/\ Returned
   /\ Asked.root.kind # "err"
   /\ (Asked.status.kind \in {"err", "undecodable"} \/ EsUnparsable)) =>
    /\ Record.label = CurrentEnv
    /\ Record.url = CurrentUrl
    /\ Record.status = "BragiNotAvailable"
    /\ Record.version = Empty
    /\ Record.elastic = None

C5_Witness == Returned /\ Asked.root.kind # "err" /\ EsUnparsable

\* an index name with fewer than 5 underscore-delimited tokens
Malformed(i) == Len(Split(i.index, "_")) < 5

\* the listing of the running probe holds a malformed index name
MalformedListed ==
  /\ pc \in {"fold", "panicked"}
  /\ Len(acc) < Len(iter)
  /\ Asked.indices.kind = "json"
  /\ \E n \in 1..Len(Unwrap(Asked.indices.body)) :
       Malformed(Unwrap(Asked.indices.body)[n])

\* C6: a listing with a malformed index name does not abort the probe: the
\* probe returns, the backend is Available and every well-formed entry of
\* the listing is among its indices.
C6_MalformedLabelIsLocal ==
  MalformedListed =>
    /\ pc # "panicked"
    /\ Returned
    /\ IsSome(Record.elastic)
    /\ Unwrap(Record.elastic).status = "Available"
    /\ \A n \in 1..Len(Unwrap(Asked.indices.body)) :
         LET i == Unwrap(Asked.indices.body)[n]
         IN  ~Malformed(i) =>
               \E m \in 1..Len(Unwrap(Record.elastic).indices) :
                 Unwrap(Record.elastic).indices[m].label = i.index

\* list_environments returned a response body
Listed == pc = "done" /\ IsSome(response) /\ Unwrap(response).tag = "Ok"

Body == Unwrap(Unwrap(response).val)

\* C7: the i-th record of the result is the status of the i-th supplied
\* entry, whatever order the registry iterates in.
C7_InputOrder ==
  Listed =>
    /\ Len(Body.environments) = Len(supplied)
    /\ \A i \in 1..Len(supplied) :
         Body.environments[i].label \in LabelsOf(supplied[i].env)

\* C8: when the listing request succeeds and its body decodes, the backend
\* of the returned record is Available and its indices are the records of
\* the listing, one each, in the order of the listing, labelled by their
\* index names.
C8_IndicesInListingOrder ==
  (Returned /\ StatusSucceeded /\ Asked.indices.kind = "json") =>
    LET is == Unwrap(Asked.indices.body)
    IN  /\ IsSome(Record.elastic)
        /\ Unwrap(Record.elastic).status = "Available"
        /\ Len(Unwrap(Record.elastic).indices) = Len(is)
        /\ \A n \in 1..Len(is) :
             Unwrap(Record.elastic).indices[n].label = is[n].index

C8_Witness ==
  /\ Returned /\ StatusSucceeded /\ Asked.indices.kind = "json"
  /\ Len(Unwrap(Asked.indices.body)) = 2
  /\ Unwrap(Asked.indices.body)[1].index # Unwrap(Asked.indices.body)[2].index

\* C9: the record of an environment does not depend on the other entries:
\* once list_environments has ended, the record computed for an entry is in
\* its result, whatever the requests of the other entries came to.
C9_IndependentOfOthers ==
  pc \in {"done", "panicked"} =>
    \A n \in 1..Len(acc) :
      /\ Listed
      /\ \E m \in 1..Len(Body.environments) : Body.environments[m] = acc[n]

\* C10: the result holds exactly one record per registry entry, and
\* environmentsCount is the length of environments and the number of
\* registry entries.
C10_OneRecordPerEntry ==
  Listed =>
    /\ Body.environments_count = Len(Body.environments)
    /\ Body.environments_count = Len(supplied)
    /\ \A i \in 1..Len(supplied) :
         Cardinality({m \in 1..Len(Body.environments) :
                        Body.environments[m].label \in LabelsOf(supplied[i].env)}) = 1

C10_Witness ==
  /\ Listed
  /\ Len(supplied) >= 2
  /\ \E m \in 1..Len(Body.environments) : Body.environments[m].status = "Available"
  /\ \E m \in 1..Len(Body.environments) :
       Body.environments[m].status = "BragiNotAvailable"

\* C11 as stated: a returned record that is Available has a non-empty
\* version, whatever version the /status body carries.
C11_AvailableHasVersion ==
  (Returned /\ Record.status = "Available") => Record.version # Empty

\* C11: a returned record that is Available carries the version of the
\* /status body as it is, so its version is non-empty exactly when the
\* version of that body is.
C11_AvailableHasBodyVersion ==
  (Returned /\ Record.status = "Available") =>
    /\ Asked.status.kind = "json"
    /\ Record.version = Unwrap(Asked.status.body).version

C11_Witness ==
  /\ Returned /\ Record.status = "Available"
  /\ Unwrap(Asked.status.body).version # Empty

\* the listing of the running probe decoded, and the probe returned
Decoded == Returned /\ StatusSucceeded /\ Asked.indices.kind = "json"

\* the tokens of the n-th index name of the listing
Tokens(n) == Split(Unwrap(Asked.indices.body)[n].index, "_")

\* the n-th index entry of the returned record
Entry(n) == Unwrap(Record.elastic).indices[n]

EntryIndexes == 1..Len(Unwrap(Record.elastic).indices)

\* the token begins with the five characters "priv."
Marked(token) == Len(token) >= 5 /\ SubSeq(token, 1, 5) = PrivMarker

\* C12: of an index name of five tokens or more, the service type is the
\* second token; a third token that starts with "priv." gives Private and
\* the token without its first five characters as coverage, any other
\* third token gives Public and the token itself.
C12_TypeCoveragePrivacy ==
  Decoded =>
    \A n \in EntryIndexes :
      /\ Len(Tokens(n)) >= 5
      /\ Entry(n).place_type = Tokens(n)[2]
      /\ Marked(Tokens(n)[3]) =>
           /\ Entry(n).private = "Private"
           /\ Entry(n).coverage = SubSeq(Tokens(n)[3], 6, Len(Tokens(n)[3]))
      /\ ~Marked(Tokens(n)[3]) =>
           /\ Entry(n).private = "Public"
           /\ Entry(n).coverage = Tokens(n)[3]

C12_Witness ==
  /\ Decoded
  /\ \E n \in EntryIndexes :
       /\ Len(Tokens(n)) = 6
       /\ Entry(n).private = "Private"
       /\ Entry(n).coverage = <<"f","r">>
       /\ Entry(n).place_type = <<"a","d","d","r">>

\* the value of the digits of token from position a to position b
FieldValue(token, a, b) == Unwrap(CheckedDecimal(SubSeq(token, a, b), 9999))

\* eight digits that name a day of the calendar
IsYYYYMMDD(token) ==
  /\ Len(token) = 8
  /\ AllDigits(token)
  /\ FieldValue(token, 5, 6) \in 1..12
  /\ FieldValue(token, 7, 8) >= 1
  /\ FieldValue(token, 7, 8)
       <= DaysInMonth(FieldValue(token, 1, 4), FieldValue(token, 5, 6))

\* six digits that name a time of the day
IsHHMMSS(token) ==
  /\ Len(token) = 6
  /\ AllDigits(token)
  /\ FieldValue(token, 1, 2) <= 23
  /\ FieldValue(token, 3, 4) <= 59
  /\ FieldValue(token, 5, 6) <= 59

DateOf(token) ==
  [year |-> FieldValue(token, 1, 4), month |-> FieldValue(token, 5, 6),
   day |-> FieldValue(token, 7, 8)]

TimeOf(token) ==
  [hour |-> FieldValue(token, 1, 2), minute |-> FieldValue(token, 3, 4),
   second |-> FieldValue(token, 5, 6), leap |-> FALSE]

HasLetter(token) == \E k \in 1..Len(token) : token[k] \in Lower

\* C13 as stated: a fourth token that is not a valid YYYYMMDD gives the date
\* 1970-01-01 and a valid one gives its date; a fifth token that is not a
\* valid HHMMSS gives the time 00:01:01 and a valid one gives its time; each
\* whatever the other token is.
C13_DateTimeDefaults ==
  Decoded =>
    \A n \in EntryIndexes :
      LET date == Tokens(n)[4]
          time == Tokens(n)[5]
      IN  /\ IsYYYYMMDD(date) => Entry(n).created_at.date = DateOf(date)
          /\ ~IsYYYYMMDD(date) => Entry(n).created_at.date = DefaultDate
          /\ IsHHMMSS(time) => Entry(n).created_at.time = TimeOf(time)
          /\ ~IsHHMMSS(time) => Entry(n).created_at.time = DefaultTime

\* C13: a fourth token that is a valid YYYYMMDD gives its date, and one
\* that is empty, holds a letter or is eight digits naming no day gives
\* 1970-01-01; a fifth token that is a valid HHMMSS gives its time, and one
\* that is empty, holds a letter or is six digits with an hour above 23 or
\* a minute above 59 gives 00:01:01; each whatever the other token is.
C13_DateTimeDefaultsWhenRejected ==
  Decoded =>
    \A n \in EntryIndexes :
      LET date == Tokens(n)[4]
          time == Tokens(n)[5]
      IN  /\ IsYYYYMMDD(date) => Entry(n).created_at.date = DateOf(date)
          /\ (\/ date = Empty
              \/ HasLetter(date)
              \/ Len(date) = 8 /\ AllDigits(date) /\ ~IsYYYYMMDD(date)) =>
               Entry(n).created_at.date = DefaultDate
          /\ IsHHMMSS(time) => Entry(n).created_at.time = TimeOf(time)
          /\ (\/ time = Empty
              \/ HasLetter(time)
              \/ /\ Len(time) = 6 /\ AllDigits(time)
                 /\ (FieldValue(time, 1, 2) > 23 \/ FieldValue(time, 3, 4) > 59)) =>
               Entry(n).created_at.time = DefaultTime

\* a date that does not parse beside a time that does
C13_Witness ==
  /\ Decoded
  /\ \E n \in EntryIndexes :
       /\ HasLetter(Tokens(n)[4])
       /\ IsHHMMSS(Tokens(n)[5])
       /\ Entry(n).created_at.date = DefaultDate
       /\ Entry(n).created_at.time # DefaultTime

\* the digits of s without its leading zeros
RECURSIVE StripZeros(_)
StripZeros(s) ==
  IF Len(s) > 1 /\ s[1] = "0" THEN StripZeros(Skip(s, 1)) ELSE s

\* the docs.count of the n-th record of the listing
DocsCount(n) == Unwrap(Asked.indices.body)[n].count

\* C14: the count of an entry is never negative; it is the integer that
\* docs.count denotes when docs.count is a string of decimal digits, however
\* large, and 0 when docs.count is empty or holds a character that is
\* neither a digit nor a sign; and no docs.count makes the probe fail.
C14_DocumentCount ==
  /\ (Len(acc) < Len(iter) /\ Asked.indices.kind = "json") => pc # "panicked"
  /\ Decoded =>
       \A n \in EntryIndexes :
         /\ Entry(n).count >= 0
         /\ (DocsCount(n) # Empty /\ AllDigits(DocsCount(n))) =>
              FormatInt(Entry(n).count) = StripZeros(DocsCount(n))
         /\ (DocsCount(n) = Empty \/ HasLetter(DocsCount(n))) => Entry(n).count = 0

\* the response body has been written as JSON
Written == Listed /\ IsSome(output)

\* the keys of a JSON object, and the value of its member named key
Keys(object) == {object.members[k].key : k \in 1..Len(object.members)}

Field(object, key) ==
  object.members[CHOOSE k \in 1..Len(object.members) : object.members[k].key = key].value

\* the environments of the response body that have a backend
WithBackend == {e \in 1..Len(Body.environments) : IsSome(Body.environments[e].elastic)}

\* the indices of environment e, as records and as written
IndicesOf(e) == Unwrap(Body.environments[e].elastic).indices

WrittenIndicesOf(e) ==
  Field(Field(Field(Unwrap(output), "environments").items[e], "elastic"), "indices").items

\* C15: the JSON object written for an index entry has a member "private"
\* exactly when the entry is Private, and then its value is "private".
C15_PrivacyWrittenWhenPrivate ==
  Written =>
    \A e \in WithBackend :
      /\ Len(WrittenIndicesOf(e)) = Len(IndicesOf(e))
      /\ \A n \in 1..Len(IndicesOf(e)) :
           /\ "private" \in Keys(WrittenIndicesOf(e)[n]) <=>
                IndicesOf(e)[n].private = "Private"
           /\ "private" \in Keys(WrittenIndicesOf(e)[n]) =>
                Field(WrittenIndicesOf(e)[n], "private") = JString(SnakeCase("Private"))

\* a Private and a Public entry written in one response
C15_Witness ==
  /\ Written
  /\ \E e \in WithBackend :
       \E n, m \in 1..Len(IndicesOf(e)) :
         /\ IndicesOf(e)[n].private = "Private"
         /\ IndicesOf(e)[m].private = "Public"
         /\ "private" \in Keys(WrittenIndicesOf(e)[n])
         /\ "private" \notin Keys(WrittenIndicesOf(e)[m])

\* the request to the base url of entry n was answered
Reached(n) == world[n].root.kind \in {"undecodable", "json"}

\* the /status body of entry n decoded and its 'es' value is a URL
StatusRead(n) ==
  /\ world[n].status.kind = "json"
  /\ UrlParse(Unwrap(world[n].status.body).elasticsearch).ok

\* the url of the backend of entry n followed by the path of the listing
ListingUrl(n) ==
  ElasticUrl(UrlParse(Unwrap(world[n].status.body).elasticsearch)) \o IndicesPath

\* requests are the requests of one probe of entry n, in their order
InOrder(requests, n) ==
  /\ Len(requests) <= 3
  /\ Len(requests) >= 1 => requests[1] = supplied[n].url
  /\ Len(requests) >= 2 =>
       /\ Reached(n)
       /\ requests[2] = supplied[n].url \o StatusPath
  /\ Len(requests) >= 3 =>
       /\ StatusRead(n)
       /\ requests[3] = ListingUrl(n)

\* C16: the requests of a probe are, in this order and once each at most,
\* GET url, GET url/status and GET backend url/_cat/indices?format=json;
\* the second is made only when the first was answered and the third only
\* when the status stage succeeded; in the server and in the command-line
\* program alike.
C16_RequestOrder ==
  /\ \A n \in 1..Len(supplied) : InOrder(world[n].requests, n)
  /\ cli.n # 0 => InOrder(cli.requests, cli.n)
  /\ cli.n = 0 => cli.requests = <<>>

C16_Witness ==
  /\ Len(supplied) = 1
  /\ Len(world[1].requests) = 3
  /\ Len(cli.requests) = 3

\* a record without its timestamps of observation, the count of an index as
\* its decimal text and the timestamp of an index under one name
ServerIndexView(i) ==
  [label |-> i.label, place_type |-> i.place_type, coverage |-> i.coverage,
   private |-> i.private, created_at |-> i.created_at, count |-> FormatI32(i.count)]

CliIndexView(i) ==
  [label |-> i.label, place_type |-> i.place_type, coverage |-> i.coverage,
   private |-> i.private, created_at |-> i.date, count |-> FormatU32(i.count)]

ServerIndexViews(b) ==
  IF IsSome(b.elastic)
  THEN [n \in 1..Len(Unwrap(b.elastic).indices) |->
          ServerIndexView(Unwrap(b.elastic).indices[n])]
  ELSE <<>>

CliIndexViews(b) ==
  IF IsSome(b.elastic)
  THEN [n \in 1..Len(Unwrap(b.elastic).indices) |->
          CliIndexView(Unwrap(b.elastic).indices[n])]
  ELSE <<>>

BackendView(es, indices) ==
  [label |-> es.label, url |-> es.url, name |-> es.name, status |-> es.status,
   version |-> es.version, index_prefix |-> es.index_prefix,
   indices |-> indices]

\* a record with the views of the indices of its backend
RecordView(b, indices) ==
  [label |-> b.label, url |-> b.url, version |-> b.version, status |-> b.status,
   elastic |-> IF IsSome(b.elastic)
               THEN Some(BackendView(Unwrap(b.elastic), indices))
               ELSE None]

\* the server and the command-line program each have a record of entry 1
BothRecorded == Len(supplied) = 1 /\ Len(acc) = 1 /\ cli.n = 1 /\ IsSome(cli.bragi)

\* C17: for the same environment and the same answers to the three
\* requests, the record of the command-line program is the record of the
\* server, timestamps of observation aside.
C17_SamePipeline ==
  BothRecorded =>
    RecordView(Unwrap(cli.bragi), CliIndexViews(Unwrap(cli.bragi)))
      = RecordView(acc[1], ServerIndexViews(acc[1]))

\* the running probe has made the request to its base url
RootAsked ==
  /\ pc \in {"fold", "panicked"}
  /\ Len(acc) < Len(iter)
  /\ Asked.root # Unasked

\* C18: the reachability stage fails exactly when the request to the base
\* url got no response: then nothing more is requested and the chain goes to
\* its error handler; on any response, whatever its body and whether or not
\* it decodes, the chain goes on to the status request with (env, url).
C18_AnyResponseIsReachable ==
  RootAsked =>
    /\ Asked.root.kind = "err" =>
         /\ Len(Asked.requests) = 1
         /\ stage \in {"or_else", "return"}
    /\ Asked.root.kind # "err" =>
         \/ /\ stage = "check_bragi_status"
            /\ chain = Ok([env |-> CurrentEnv, url |-> CurrentUrl])
         \/ /\ Len(Asked.requests) >= 2
            /\ Asked.requests[2] = CurrentUrl \o StatusPath

\* a response whose body does not decode, and the status request made
C18_Witness ==
  /\ RootAsked
  /\ Asked.root.kind = "undecodable"
  /\ Len(Asked.requests) >= 2

\* the path of the 'es' value of the /status body of the running probe
EsPath == UrlParse(Unwrap(Asked.status.body).elasticsearch).path

\* C19: when the status stage succeeds, the index prefix of the backend is
\* the first path segment of the 'es' URL, and "munin" when that URL has no
\* path segment (no path, or the path "/").
C19_IndexPrefix ==
  StatusSucceeded =>
    LET prefix == Unwrap(Unwrap(info).elastic).index_prefix
    IN  IF EsPath \in {Empty, <<"/">>}
        THEN prefix = Munin
        ELSE prefix = Split(Skip(EsPath, 1), "/")[1]

\* a record whose backend, if it has one, lists indices only when Available
IndicesOnlyWhenAvailable(b) ==
  (IsSome(b.elastic) /\ Unwrap(b.elastic).indices # <<>>) =>
    Unwrap(b.elastic).status = "Available"

\* C20: the backend of a record has indices only if it is Available: in the
\* record of the status stage, in the record the probe returns and in the
\* records collected for the response.
C20_IndicesOnlyWhenAvailable ==
  /\ StatusSucceeded => IndicesOnlyWhenAvailable(Unwrap(info))
  /\ Returned => IndicesOnlyWhenAvailable(Record)
  /\ \A n \in 1..Len(acc) : IndicesOnlyWhenAvailable(acc[n])

\* a returned record whose backend lists indices
C20_Witness ==
  /\ Returned
  /\ IsSome(Record.elastic)
  /\ Len(Unwrap(Record.elastic).indices) = 2
  /\ Unwrap(info).elastic # Record.elastic

\* C21: whatever the three requests come to, the url of the record that
\* probe_environment returns is the base url it was called with.
C21_UrlIsBaseUrl ==
  Returned => Record.url = CurrentUrl

\* status and backend of a record go together
Coupled(b) ==
  /\ b.elastic = None <=> b.status = "BragiNotAvailable"
  /\ b.elastic = None => b.version = Empty
  /\ IsSome(b.elastic) <=> b.status = "Available"
  /\ b.status # "ElasticsearchNotAvailable"

\* C22: in every record probe_environment returns, the backend is absent
\* exactly when the status is BragiNotAvailable, and then the version is
\* empty; it is present exactly when the status is Available; and the status
\* is never ElasticsearchNotAvailable.
C22_StatusAndBackendCoupled ==
  /\ Returned => Coupled(Record)
  /\ \A n \in 1..Len(acc) : Coupled(acc[n])

\* the record returned when the status stage succeeded and the listing
\* request got no response
C22_Witness ==
  /\ Returned
  /\ StatusSucceeded
  /\ Asked.indices.kind = "err"
  /\ Record.status = "BragiNotAvailable"
  /\ Record.elastic = None

=============================================================================
